---- MODULE Spec2Model ----
(***************************************************************************)
(* Real-time speech-translation pipeline of panyeroa1/makata.              *)
(*                                                                         *)
(* The module models, as state machines translated from the TypeScript     *)
(* sources, the components the pipeline is made of:                        *)
(*   - AudioQueue                    (services/translationPipeline.ts)     *)
(*   - WebSpeechSTT                  (services/webSpeechSTT.ts)            *)
(*   - TranslationPipeline           (services/translationPipeline.ts,     *)
(*                                    services/deepgramSTT.ts)             *)
(*   - DeepgramSTT                   (services/deepgramSTT.ts)             *)
(*   - RealtimeTranslationService    (services/realtimeTranslationService) *)
(* JavaScript runs handlers to completion: every action below is the code  *)
(* executed between two suspension points (await, timer, event).           *)
(***************************************************************************)
EXTENDS Integers, Sequences, FiniteSets, TLC

(***************************************************************************)
(* Bounds of the model and program constants.                              *)
(***************************************************************************)
MaxItems == 3        \* audio items ever enqueued on a stand-alone AudioQueue
TickMs == 250        \* granularity of the clock in the AudioQueue scenarios
MaxTime == 1000      \* the AudioQueue scenarios' clock stops advancing here
MaxSegments == 3     \* transcript results handled in the scenario "TP"
CacheSegments == 4   \* transcript results handled in a cache scenario
QueueSegments == 2   \* transcript results handled in the scenarios "DG", "RTS"
MaxInFlight == 2     \* segment handlers suspended at an await at one time
MaxErrors == 1       \* recognition error events in one scenario
MaxStarts == 2       \* start() invocations suspended at getUserMedia at one time
MaxTtlTicks == 1     \* TTL-long steps of the clock in the cache scenarios
MaxAbandoned == 2    \* connections of one DeepgramSTT that start() has overwritten
MaxClosing == 2      \* connections of one DeepgramSTT waiting for their Close event
MaxChunks == 3       \* audio chunks the Live API sends to one LiveSession
LiveTicks == 3       \* steps of the clock in the LiveSession scenario
gapMs == 500         \* AudioQueue.gapMs
CACHE_TTL_MS == 3600000  \* TranslationPipeline.CACHE_TTL_MS
\* TranslationPipeline.MAX_CACHE_SIZE is 1000 and
\* RealtimeTranslationService.CACHE_SIZE_LIMIT is 500 in the source; the model
\* keeps both capacities small so that eviction happens within the bounds.
MAX_CACHE_SIZE == 2
CACHE_SIZE_LIMIT == 2

NoTime == 0 - 1      \* "not yet" in the play log

\* PipelineConfig / RealtimeTranslationConfig as the callers build them.
sourceLang == "Spanish (Spain)"
targetLang == "English (United States)"
speakerId == "anonymous"

\* Members of the Language enumeration: a name without a region, the same
\* name with one, and a third language.
Languages == {"Italian", "Italian (Switzerland)", "Lao"}
\* Texts to be translated, some holding a separator of the cache keys next
\* to a language name.
KeyTexts == {"hola", "", "_", "hola_Lao", "Lao_hola", ":", "hola:Lao", "Lao:hola"}
\* What a translation is cached under: (sourceLang, text, targetLang).
Triples == [sourceLang : Languages, text : KeyTexts, targetLang : Languages]

\* Transcript texts the recogniser produces; " " is a blank result.
Texts == {"hola", "adios", "ciao", " "}
\* String.prototype.trim on the texts above.
trim(text) == IF text = " " THEN "" ELSE text

\* What the external translation engine does with one request: answers with
\* a translation, answers with no text, or fails.
EngineOutcomes == {"hello", "", "throw"}
\* In the cache scenarios the engine always answers.
CacheOutcomes == {"hello", ""}

\* The scenarios. A behaviour studies one object in one environment:
\*   "AQ"   a stand-alone AudioQueue driven by arbitrary enqueue()/clear();
\*   "TP"   the Web Speech TranslationPipeline as App.tsx uses it, with its
\*          whole life cycle (start, stop, recognition errors and restarts);
\*   "TPC"  the same pipeline, configured without TTS and started once,
\*          with the database out of reach, over a span of time long enough
\*          for cache entries to expire;
\*   "DG"   the Deepgram TranslationPipeline with the AudioQueue it owns;
\*   "DS"   one DeepgramSTT instance driven directly by its caller;
\*   "WS"   the WebSpeechSTT singleton driven directly by its caller;
\*   "LS"   one LiveSession, connected once, as App.tsx uses it;
\*   "KEY"  the cache keys of two translation requests, in both caches;
\*   "RTS"  a RealtimeTranslationService with its whole life cycle;
\*   "RTSC" a RealtimeTranslationService, started once, with a speech
\*          engine that yields no audio, over a span of time long enough
\*          for cache entries to expire.
PipelineScenarios == {"TP", "TPC", "DG"}
ServiceScenarios == {"RTS", "RTSC"}
WebSpeechScenarios == {"TP", "TPC", "RTS", "RTSC", "WS"}
SourceScenarios == {"DS", "WS"}
QueueScenarios == {"AQ", "DG"}
CacheScenarios == {"TPC", "RTSC"}

VARIABLES
    svc,        \* the scenario of this behaviour
    now,        \* the wall clock (Date.now(), the timers' time base); in the
                \* scenario "LS", audioContext.currentTime
    queue,      \* AudioQueue.queue: pending items, head first
    isPlaying,  \* AudioQueue.isPlaying
    ctxState,   \* audioContext: "none" (null), or its state "running",
                \* "suspended" or "closed"
    drains,     \* processQueue() invocations suspended at an await
    nextItem,   \* identifier of the next item the caller enqueues
    playLog,    \* history: every source.start(), with its onended time
    webSpeechSTT,       \* the WebSpeechSTT singleton
    sttService,         \* the DeepgramSTT of the Deepgram pipeline
    isActive,           \* isActive of the pipeline / service under study
    translationCache,   \* translationCache of the pipeline / service (a Map)
    processedSegments,  \* TranslationPipeline.processedSegments
    tasks,              \* segment handler invocations that have not returned
    delivered,          \* number of segment handler invocations so far
    evicted,            \* history: the cache has dropped an entry
    pipelineState,      \* App.tsx: the PipelineState the UI shows
    status,             \* the status last passed to events.onStatusChange
    starts,             \* start() invocations suspended at getUserMedia
    stopReturned,       \* history: the last thing the service did was stop()
    mediaStream,        \* the microphone stream held (RealtimeTranslationService
                        \* .mediaStream, DeepgramSTT.stream) is there and live
    onErrorCalls,       \* history: how many times the last step called the
                        \* service's events.onError
    synth,              \* history: what generateSpeech answered the service in
                        \* the last step: "audio", "null", or "" (no answer)
    stopped,            \* history: "no" once start() is called; after stop()
                        \* has returned, "pending" if a start() was suspended
                        \* at the time and "settled" otherwise
    liveSession,        \* the LiveSession under study
    keys,               \* scenario "KEY": the two requests a and b, and the
                        \* cache keys computed for them (none: <<>>)
    cleared             \* history: whether clear() was called on the
                        \* AudioQueue, and the items waiting in it then

aqVars == <<queue, isPlaying, ctxState, drains, nextItem, playLog>>
tpVars == <<isActive, translationCache, processedSegments, tasks, delivered,
            evicted, pipelineState>>
serviceVars == <<status, starts, stopReturned, mediaStream, stopped>>
reportVars == <<onErrorCalls, synth>>
rtsVars == <<serviceVars, reportVars>>
ownerVars == <<tpVars, rtsVars>>
vars == <<svc, now, aqVars, webSpeechSTT, sttService, ownerVars, liveSession,
          cleared, keys>>

\* A step in which the service calls no onError and gets no answer from the
\* synthesizer.
NoReport == onErrorCalls' = 0 /\ synth' = ""

\* PipelineConfig.enableTTS
enableTTS == svc # "TPC"

\* How many transcript results a scenario handles, and how many handlers it
\* lets wait at one time.
SegmentBound ==
    IF svc \in CacheScenarios THEN CacheSegments
    ELSE IF svc \in {"DG", "RTS"} THEN QueueSegments ELSE MaxSegments
ScenarioTexts == IF svc \in CacheScenarios THEN Texts ELSE {"hola", " "}

(***************************************************************************)
(* AudioQueue                                                              *)
(***************************************************************************)

\* An AudioQueueItem: its id, and whether creating/starting its source works
\* (ok = FALSE: a buffer for which createBufferSource/start throws).
AudioQueueItem == [id : 1..MaxItems, ok : BOOLEAN]

\* A processQueue() invocation suspended at one of its three awaits.
Drain(item, pc, due) == [item |-> item, pc |-> pc, due |-> due]

\* processQueue(), run from its entry to its first await (or its return),
\* on queue q with the context in state cs. A throw inside the try block is
\* caught and processQueue() is called again at once, hence the recursion.
\* Result: the queue, isPlaying, the invocation left suspended (if any) and
\* the item whose source was started (if any).
RECURSIVE processQueue(_, _)
processQueue(q, cs) ==
    IF q = << >>
    THEN [queue |-> q, isPlaying |-> FALSE, drain |-> {}, started |-> {}]
    ELSE LET item == Head(q) IN
         IF cs = "suspended"
         THEN [queue |-> Tail(q), isPlaying |-> TRUE,
               drain |-> {Drain(item, "resume", 0)}, started |-> {}]
         ELSE IF item.ok
         THEN [queue |-> Tail(q), isPlaying |-> TRUE,
               drain |-> {Drain(item, "onended", 0)}, started |-> {item}]
         ELSE processQueue(Tail(q), cs)

\* The play log after the sources of `started` (at most one) were started.
LogStart(log, started) ==
    IF started = {} THEN log
    ELSE LET item == CHOOSE i \in started : TRUE IN
         Append(log, [id |-> item.id, start |-> now, end |-> NoTime])

\* The play log after the source of item id fired onended.
LogEnd(log, id) ==
    [i \in 1..Len(log) |->
        IF log[i].id = id THEN [log[i] EXCEPT !.end = now] ELSE log[i]]

\* A processQueue() whose catch returns instead of going on to "Process
\* next": after a throw the queue is left marked as playing.
RunProcessQueueOnce(q, cs, rest) ==
    LET r == IF q # << >> /\ cs # "suspended" /\ ~Head(q).ok
             THEN [queue |-> Tail(q), isPlaying |-> TRUE, drain |-> {},
                   started |-> {}]
             ELSE processQueue(q, cs)
    IN
    /\ queue' = r.queue
    /\ isPlaying' = r.isPlaying
    /\ drains' = rest \cup r.drain
    /\ playLog' = LogStart(playLog, r.started)

\* The effect of one processQueue() call on the queue's state; `rest` are the
\* other suspended invocations.
RunProcessQueue(q, cs, rest) ==
    LET r == processQueue(q, cs) IN
    /\ queue' = r.queue
    /\ isPlaying' = r.isPlaying
    /\ drains' = rest \cup r.drain
    /\ playLog' = LogStart(playLog, r.started)

\* An enqueue() that calls processQueue() whether or not an item is playing.
enqueueAndProcess(item, cs) ==
    RunProcessQueue(Append(queue, item), cs, drains)

\* enqueue(item), as it acts on the queue's own state, the context being in
\* state cs.
enqueue(item, cs) ==
    IF ~isPlaying
    THEN RunProcessQueue(Append(queue, item), cs, drains)
    ELSE /\ queue' = Append(queue, item)
         /\ UNCHANGED <<isPlaying, drains, playLog>>

\* The owner of a stand-alone AudioQueue calls enqueue(item).
CallEnqueue(item) ==
    /\ svc = "AQ"
    /\ nextItem <= MaxItems
    /\ item.id = nextItem
    /\ nextItem' = nextItem + 1
    /\ enqueue(item, ctxState)
    /\ UNCHANGED <<svc, keys, cleared, liveSession, now, ctxState, webSpeechSTT, sttService, ownerVars>>

\* processQueue() resumes after `await this.audioContext.resume()`: the
\* promise resolved (ok) or rejected.
ResumeSettled(d, ok) ==
    /\ svc \in QueueScenarios
    /\ d \in drains /\ d.pc = "resume"
    /\ IF ok
       THEN /\ ctxState' = "running"
            /\ IF d.item.ok
               THEN /\ drains' = (drains \ {d}) \cup {Drain(d.item, "onended", 0)}
                    /\ playLog' = LogStart(playLog, {d.item})
                    /\ UNCHANGED <<queue, isPlaying>>
               ELSE RunProcessQueue(queue, "running", drains \ {d})
       ELSE /\ ctxState' = ctxState
            /\ RunProcessQueue(queue, ctxState, drains \ {d})
    /\ UNCHANGED <<svc, keys, cleared, liveSession, now, nextItem, webSpeechSTT, sttService, ownerVars>>

\* source.onended fires: item.onEnd(), then the gap timer is armed.
SourceEnded(d) ==
    /\ svc \in QueueScenarios
    /\ d \in drains /\ d.pc = "onended"
    /\ drains' = (drains \ {d}) \cup {Drain(d.item, "gap", now + gapMs)}
    /\ playLog' = LogEnd(playLog, d.item.id)
    /\ UNCHANGED <<svc, keys, cleared, liveSession, now, queue, isPlaying, ctxState, nextItem,
                   webSpeechSTT, sttService, ownerVars>>

\* The gap timer fires (no earlier than gapMs after it was armed):
\* "Process next".
GapElapsed(d) ==
    /\ svc \in QueueScenarios
    /\ d \in drains /\ d.pc = "gap"
    /\ now >= d.due
    /\ RunProcessQueue(queue, ctxState, drains \ {d})
    /\ UNCHANGED <<svc, keys, cleared, liveSession, now, ctxState, nextItem, webSpeechSTT, sttService,
                   ownerVars>>

\* A clear() that resets the flag and leaves the items in the queue.
clearFlagOnly ==
    /\ svc = "AQ"
    /\ queue' = queue
    /\ isPlaying' = FALSE
    /\ cleared' = [called |-> TRUE,
                   items |-> cleared.items \cup {queue[i].id : i \in 1..Len(queue)}]
    /\ UNCHANGED <<svc, keys, liveSession, now, ctxState, drains, nextItem, playLog,
                   webSpeechSTT, sttService, ownerVars>>

\* clear()
clear ==
    /\ svc = "AQ"
    /\ queue' = << >>
    /\ isPlaying' = FALSE
    /\ cleared' = [called |-> TRUE,
                   items |-> cleared.items \cup {queue[i].id : i \in 1..Len(queue)}]
    /\ UNCHANGED <<svc, keys, liveSession, now, ctxState, drains, nextItem, playLog,
                   webSpeechSTT, sttService, ownerVars>>

\* Time passes (AudioQueue scenarios).
Tick ==
    /\ svc \in QueueScenarios
    /\ now + TickMs <= MaxTime
    /\ now' = now + TickMs
    /\ UNCHANGED <<svc, keys, cleared, liveSession, aqVars, webSpeechSTT, sttService, ownerVars>>

\* The AudioQueue right after construction.
InitQueue ==
    /\ queue = << >>
    /\ isPlaying = FALSE
    /\ drains = {}
    /\ nextItem = 1
    /\ playLog = << >>
    /\ cleared = [called |-> FALSE, items |-> {}]

(***************************************************************************)
(* WebSpeechSTT (the singleton webSpeechSTT)                               *)
(*                                                                         *)
(* recognition is the browser's SpeechRecognition object: "inactive",      *)
(* "starting" (start() called, no start event yet), "running", "stopping"  *)
(* (stop() called, no end event yet). start() on an object that is not     *)
(* inactive throws InvalidStateError.                                      *)
(*                                                                         *)
(* Two fields are history: stopCalled (the owner has called stop() and     *)
(* neither start() nor setLanguage() since) and lastError (the error code  *)
(* of the last error event since the owner's last start(), "" if none).    *)
(***************************************************************************)
InitSTT ==
    webSpeechSTT = [recognition |-> "inactive", isRecognizing |-> FALSE,
                    onTranscriptCallback |-> FALSE, segmentCounter |-> 0,
                    restartTimers |-> 0, startTimers |-> 0, errorEvents |-> 0,
                    stopCalled |-> FALSE, lastError |-> "",
                    finals |-> << >>, interims |-> {}]

\* The history fields after a call by the owner: of start() or
\* setLanguage(), and of stop().
ownerStarted(s) == [s EXCEPT !.stopCalled = FALSE, !.lastError = ""]
ownerStopped(s) == [s EXCEPT !.stopCalled = TRUE]

\* start(callbacks) on the singleton in state s: the new state, the value
\* returned and whether callbacks.onError was invoked.
sttStart(s) ==
    IF s.isRecognizing
    THEN [stt |-> s, started |-> FALSE, onError |-> FALSE]
    ELSE LET s1 == [s EXCEPT !.onTranscriptCallback = TRUE] IN
         IF s.recognition = "inactive"
         THEN [stt |-> [s1 EXCEPT !.recognition = "starting"],
               started |-> TRUE, onError |-> FALSE]
         ELSE [stt |-> s1, started |-> FALSE, onError |-> TRUE]

\* stop()
sttStop(s) ==
    IF ~s.isRecognizing THEN s
    ELSE [s EXCEPT !.isRecognizing = FALSE, !.recognition = "stopping"]

\* setLanguage(lang): the new state and whether onError was invoked.
sttSetLanguage(s) ==
    IF s.isRecognizing
    THEN LET s1 == sttStop(s) IN
         IF s1.onTranscriptCallback
         THEN [stt |-> sttStart(s1).stt, onError |-> sttStart(s1).onError]
         ELSE [stt |-> s1, onError |-> FALSE]
    ELSE [stt |-> s, onError |-> FALSE]

\* An id that does not tell a final segment from an interim one.
SegmentIdWithoutKind(counter, isFinal) == "seg-" \o ToString(counter)

\* The id onresult gives a segment.
SegmentId(counter, isFinal) ==
    "seg-" \o ToString(counter) \o "-" \o (IF isFinal THEN "final" ELSE "partial")

\* History of a transcript source studied on its own: the ids of the final
\* segments it has handed to its callback, in order, and the ids of the
\* interim ones. stt is the source before the segment, and the segment is
\* handed over only if a callback is registered.
Emitted(stt, id, isFinal) ==
    IF svc \notin SourceScenarios \/ ~stt.onTranscriptCallback THEN stt
    ELSE IF isFinal THEN [stt EXCEPT !.finals = Append(@, id)]
    ELSE [stt EXCEPT !.interims = @ \cup {id}]

(***************************************************************************)
(* The translation cache: a JavaScript Map, kept as the sequence of its    *)
(* entries in insertion order. Map.set on a key already present replaces   *)
(* the value and keeps the key's place.                                    *)
(***************************************************************************)
MapHas(m, k) == \E i \in 1..Len(m) : m[i].key = k
MapGet(m, k) == m[CHOOSE i \in 1..Len(m) : m[i].key = k].value
MapSet(m, k, v) ==
    IF MapHas(m, k)
    THEN [i \in 1..Len(m) |-> IF m[i].key = k THEN [key |-> k, value |-> v] ELSE m[i]]
    ELSE Append(m, [key |-> k, value |-> v])
\* delete(keys().next().value)
MapDeleteFirst(m) == IF m = << >> THEN m ELSE Tail(m)

\* translateText(ai, text, sourceLang, targetLang) given what the engine
\* does: a failure is caught and the original text returned.
translateText(text, outcome) == IF outcome = "throw" THEN text ELSE outcome

\* What a cache holds under key k at this moment: nothing, an entry younger
\* than the time-to-live, or one at least that old.
EntryAge(m, k) ==
    IF ~MapHas(m, k) THEN "none"
    ELSE IF now - MapGet(m, k).timestamp < CACHE_TTL_MS THEN "live"
    ELSE "expired"

(***************************************************************************)
(* TranslationPipeline                                                     *)
(***************************************************************************)
\* A key that leaves the source language out.
keyWithoutSource(source, text, target) == text \o "_" \o target

\* translateWithCache: `${this.config.sourceLang}_${text}_${targetLang}`
pipelineCacheKey(source, text, target) == source \o "_" \o text \o "_" \o target
cacheKey(text) == pipelineCacheKey(sourceLang, text, targetLang)

\* An eviction that tolerates one entry too many.
EvictLate(m) == IF Len(m) > MAX_CACHE_SIZE + 1 THEN MapDeleteFirst(m) ELSE m

\* "Evict old entries if cache is too large"
Evict(m) == IF Len(m) > MAX_CACHE_SIZE THEN MapDeleteFirst(m) ELSE m

\* translateWithCache: the result stored under the text's key,
CacheSet(m, text, translated) ==
    MapSet(m, cacheKey(text), [translatedText |-> translated, timestamp |-> now])
\* then eviction.
CacheStore(m, text, translated) == Evict(CacheSet(m, text, translated))

\* translateWithCache: is there an entry for text that has not expired?
CacheHit(m, text) ==
    /\ MapHas(m, cacheKey(text))
    /\ now - MapGet(m, cacheKey(text)).timestamp < CACHE_TTL_MS

\* A segment handler invocation (processSegment / handleTranscript): seq is
\* its place in the order of calls. A local is kept only as long as the code
\* still reads it: segmentId until it is added to processedSegments, text and
\* dbSegmentId until saveTranslation has been called with it. cached is history:
\* what the cache held under the text's key when the translation was asked
\* for, kept until the step after the translation was obtained. engine is
\* history too: how the engine call made for the segment ended ("" while
\* there was none), kept until the synthesizer has answered.
NewTask(seq, text, isFinal, segmentId) ==
    [seq |-> seq, segmentId |-> segmentId, text |-> text, isFinal |-> isFinal,
     pc |-> "done", dbSegmentId |-> FALSE, cached |-> "none", engine |-> ""]

\* How an engine call with the given outcome ended.
EngineResult(outcome) ==
    IF outcome = "throw" THEN "failed"
    ELSE IF outcome = "" THEN "empty" ELSE "answered"

\* tasks with invocation old replaced by its next state t; an invocation
\* that has returned is dropped.
Put(old, t) == (tasks \ old) \cup (IF t.pc = "done" THEN {} ELSE {t})

\* processSegment from "Generate TTS" on: task t and the App's state ps.
AfterSaveTranslation(t, ps) ==
    IF enableTTS /\ t.isFinal
    THEN [task |-> [t EXCEPT !.pc = IF svc = "DG" THEN "generateStreamSpeech"
                                    ELSE "generateSpeech"],
          ps |-> ps]
    ELSE [task |-> [t EXCEPT !.pc = "done"], ps |-> ps]

\* processSegment from the translator's answer on. An empty answer is
\* reported through onError, for which App.tsx shows LISTENING.
AfterTranslate(t, translated, ps) ==
    IF translated = ""
    THEN [task |-> [t EXCEPT !.pc = "done"], ps |-> "Listening"]
    ELSE IF t.isFinal /\ t.dbSegmentId
    THEN [task |-> [t EXCEPT !.pc = "saveTranslation", !.text = ""],
          ps |-> ps]
    ELSE AfterSaveTranslation([t EXCEPT !.text = "", !.dbSegmentId = FALSE], ps)

\* A processSegment that gives up on a final segment it could not save.
TranslateIfSaved(t, ps) ==
    IF t.isFinal /\ ~t.dbSegmentId
    THEN [task |-> [t EXCEPT !.pc = "done"], ps |-> "Listening"]
    ELSE [task |-> [t EXCEPT !.pc = "translateText"], ps |-> ps]

\* processSegment from "Translate" on: translateWithCache is entered; a hit
\* answers at once, a miss awaits the engine.
Translate(t, ps) ==
    LET u == [t EXCEPT !.cached = EntryAge(translationCache, cacheKey(t.text))]
    IN IF CacheHit(translationCache, t.text)
       THEN AfterTranslate(u, MapGet(translationCache, cacheKey(t.text)).translatedText, ps)
       ELSE [task |-> [u EXCEPT !.pc = "translateText"], ps |-> ps]

\* processSegment(text, isFinal, segmentId), up to its first await. The
\* onTranscript callback of App.tsx shows PROCESSING for a final segment.
processSegment(text, isFinal, segmentId) ==
    IF ~isActive \/ trim(text) = "" \/ segmentId \in processedSegments
    THEN UNCHANGED tpVars
    ELSE LET t == NewTask(delivered + 1, text, isFinal, segmentId)
             ps == IF isFinal THEN "Processing" ELSE pipelineState
             r == IF isFinal
                  THEN [task |-> [t EXCEPT !.pc = "saveSegment"], ps |-> ps]
                  ELSE Translate([t EXCEPT !.segmentId = ""], ps)
         IN /\ tasks' = Put({}, r.task)
            /\ delivered' = delivered + 1
            /\ pipelineState' = r.ps
            /\ UNCHANGED <<isActive, translationCache, processedSegments, evicted>>

\* The pipeline's onError callback as App.tsx passes it.
AppOnError(called) == IF called THEN "Listening" ELSE pipelineState

\* start() of the Web Speech pipeline, with startWebSpeechPipeline().
TPStart ==
    /\ svc \in {"TP", "TPC"}
    /\ ~isActive
    /\ isActive' = TRUE
    /\ LET l == sttSetLanguage(webSpeechSTT)
           r == sttStart(l.stt)
       IN /\ webSpeechSTT' = ownerStarted(r.stt)
          /\ pipelineState' = AppOnError(l.onError \/ r.onError \/ ~r.started)
    /\ stopped' = "no"
    /\ UNCHANGED <<svc, keys, cleared, liveSession, now, aqVars, sttService, translationCache,
                   processedSegments, tasks, delivered, evicted, status, starts,
                   stopReturned, mediaStream, reportVars>>

\* stop() of the Web Speech pipeline.
TPStop ==
    /\ svc = "TP"
    /\ isActive' = FALSE
    /\ webSpeechSTT' = ownerStopped(sttStop(webSpeechSTT))
    /\ stopped' = "settled"
    /\ UNCHANGED <<svc, keys, cleared, liveSession, now, aqVars, sttService, translationCache,
                   processedSegments, tasks, delivered, evicted, pipelineState,
                   status, starts, stopReturned, mediaStream, reportVars>>

\* saveSegment settled: with the new row's id (saved) or with null.
SaveSegmentSettled(t, saved) ==
    /\ svc \in PipelineScenarios
    /\ t \in tasks /\ t.pc = "saveSegment"
    /\ LET r == Translate([t EXCEPT !.dbSegmentId = saved, !.segmentId = ""],
                           pipelineState)
       IN /\ tasks' = Put({t}, r.task)
          /\ pipelineState' = r.ps
    /\ processedSegments' = processedSegments \cup {t.segmentId}
    /\ UNCHANGED <<svc, keys, cleared, liveSession, now, aqVars, webSpeechSTT, sttService, isActive,
                   translationCache, delivered, evicted, rtsVars>>

\* translateText settled: the result is cached, the cache trimmed, and
\* processSegment goes on.
TranslateSettled(t, outcome) ==
    /\ svc \in PipelineScenarios
    /\ t \in tasks /\ t.pc = "translateText"
    /\ LET translated == translateText(t.text, outcome)
           r == AfterTranslate([t EXCEPT !.cached = "none",
                                         !.engine = EngineResult(outcome)],
                               translated, pipelineState)
       IN /\ translationCache' = CacheStore(translationCache, t.text, translated)
          /\ evicted' = (evicted \/
                Len(CacheStore(translationCache, t.text, translated))
                    < Len(CacheSet(translationCache, t.text, translated)))
          /\ tasks' = Put({t}, r.task)
          /\ pipelineState' = r.ps
    /\ UNCHANGED <<svc, keys, cleared, liveSession, now, aqVars, webSpeechSTT, sttService, isActive,
                   processedSegments, delivered, rtsVars>>

\* saveTranslation settled (its outcome is only logged).
SaveTranslationSettled(t) ==
    /\ svc \in PipelineScenarios
    /\ t \in tasks /\ t.pc = "saveTranslation"
    /\ LET r == AfterSaveTranslation([t EXCEPT !.cached = "none",
                                               !.dbSegmentId = FALSE],
                                     pipelineState)
       IN /\ tasks' = Put({t}, r.task)
          /\ pipelineState' = r.ps
    /\ UNCHANGED <<svc, keys, cleared, liveSession, now, aqVars, webSpeechSTT, sttService, isActive,
                   translationCache, processedSegments, delivered, evicted, rtsVars>>

\* generateSpeech settled, with audio or with null. With audio, onTTSReady
\* runs: App.tsx starts decoding it and shows SPEAKING.
SpeechSettled(t, audio) ==
    /\ svc = "TP"
    /\ t \in tasks /\ t.pc = "generateSpeech"
    /\ IF audio
       THEN /\ tasks' = Put({t}, [t EXCEPT !.pc = "decodeAudioData",
                                           !.cached = "none", !.engine = ""])
            /\ pipelineState' = "Speaking"
       ELSE /\ tasks' = Put({t}, [t EXCEPT !.pc = "done"])
            /\ UNCHANGED pipelineState
    /\ UNCHANGED <<svc, keys, cleared, liveSession, now, aqVars, webSpeechSTT, sttService, isActive,
                   translationCache, processedSegments, delivered, evicted, rtsVars>>

\* App.tsx onTTSReady: decodeAudioData settled; decoded audio is started.
DecodeSettled(t, ok) ==
    /\ svc = "TP"
    /\ t \in tasks /\ t.pc = "decodeAudioData"
    /\ tasks' = Put({t}, [t EXCEPT !.pc = IF ok THEN "playing" ELSE "done"])
    /\ UNCHANGED <<svc, keys, cleared, liveSession, now, aqVars, webSpeechSTT, sttService, isActive,
                   translationCache, processedSegments, delivered, evicted,
                   pipelineState, rtsVars>>

\* App.tsx onTTSReady: the source's onended shows LISTENING.
AppSourceEnded(t) ==
    /\ svc = "TP"
    /\ t \in tasks /\ t.pc = "playing"
    /\ tasks' = Put({t}, [t EXCEPT !.pc = "done"])
    /\ pipelineState' = "Listening"
    /\ UNCHANGED <<svc, keys, cleared, liveSession, now, aqVars, webSpeechSTT, sttService, isActive,
                   translationCache, processedSegments, delivered, evicted, rtsVars>>

\* The TranslationPipeline right after construction, in the App's call view.
InitPipeline ==
    /\ isActive = FALSE
    /\ translationCache = << >>
    /\ processedSegments = {}
    /\ tasks = {}
    /\ delivered = 0
    /\ evicted = FALSE
    /\ pipelineState = "Listening"

(***************************************************************************)
(* The Deepgram TranslationPipeline (services/deepgramSTT.ts) and its      *)
(* DeepgramSTT. processSegment and translateWithCache are, line for line,  *)
(* those of the Web Speech pipeline. sttService is the one DeepgramSTT the *)
(* pipeline has created: ref tells whether this.sttService still refers to *)
(* it; connection is "none", "connecting" or "open". start() is taken only *)
(* when no earlier DeepgramSTT is still connecting or connected.           *)
(***************************************************************************)
InitDeepgram ==
    sttService = [ref |-> FALSE, connection |-> "none", isConnected |-> FALSE,
                  onTranscriptCallback |-> FALSE, segmentCounter |-> 0,
                  mediaRecorder |-> FALSE, abandoned |-> << >>, closing |-> 0,
                  finals |-> << >>, interims |-> {}]

\* DeepgramSTT.handleTranscript: the id and the labelled text of a segment.
DeepgramId(counter, isFinal) ==
    "dg-" \o ToString(counter) \o "-" \o (IF isFinal THEN "final" ELSE "partial")
labeledText(label, transcript) ==
    IF label # "" THEN label \o ": " \o transcript ELSE transcript

\* start() with startWebSpeechPipeline() up to `await getUserMedia`;
\* apiKey: whether VITE_DEEPGRAM_API_KEY is set.
DGStart(apiKey) ==
    /\ svc = "DG"
    /\ ~isActive
    /\ starts = 0 /\ sttService.connection = "none"
    /\ isActive' = TRUE
    /\ IF apiKey
       THEN /\ sttService' = [ref |-> TRUE, connection |-> "none",
                              isConnected |-> FALSE,
                              onTranscriptCallback |-> FALSE,
                              segmentCounter |-> 0, mediaRecorder |-> FALSE,
                              abandoned |-> << >>, closing |-> 0,
                              finals |-> << >>, interims |-> {}]
            /\ starts' = starts + 1
            /\ UNCHANGED pipelineState
       ELSE /\ pipelineState' = AppOnError(TRUE)
            /\ UNCHANGED <<sttService, starts>>
    /\ stopped' = "no"
    /\ UNCHANGED <<svc, keys, cleared, liveSession, now, aqVars, webSpeechSTT, translationCache,
                   processedSegments, tasks, delivered, evicted, status,
                   stopReturned, mediaStream, reportVars>>

\* getUserMedia settled: with a stream (ok), DeepgramSTT.start() opens the
\* connection; without, the error is reported.
DGMediaSettled(ok) ==
    /\ svc = "DG"
    /\ starts > 0
    /\ starts' = starts - 1
    /\ IF ok
       THEN /\ sttService' = [sttService EXCEPT !.onTranscriptCallback = TRUE,
                                                !.connection = "connecting"]
            /\ mediaStream' = TRUE
            /\ UNCHANGED pipelineState
       ELSE /\ pipelineState' = AppOnError(TRUE)
            /\ UNCHANGED <<sttService, mediaStream>>
    /\ UNCHANGED <<svc, keys, cleared, liveSession, now, aqVars, webSpeechSTT, isActive, translationCache,
                   processedSegments, tasks, delivered, evicted, status,
                   stopReturned, stopped, reportVars>>

\* LiveTranscriptionEvents.Open
DGOpen ==
    /\ svc = "DG"
    /\ sttService.connection = "connecting"
    /\ sttService' = [sttService EXCEPT !.connection = "open",
                                        !.isConnected = TRUE]
    /\ UNCHANGED <<svc, keys, cleared, liveSession, now, aqVars, webSpeechSTT, ownerVars>>

\* LiveTranscriptionEvents.Transcript: DeepgramSTT.handleTranscript, and the
\* pipeline's onTranscript callback, i.e. processSegment up to its first await.
DGTranscript(transcript, isFinal) ==
    /\ svc = "DG"
    /\ sttService.connection = "open"
    /\ sttService.segmentCounter < SegmentBound
    /\ delivered < SegmentBound
    /\ Cardinality(tasks) < MaxInFlight
    /\ IF trim(transcript) = ""
       THEN UNCHANGED <<sttService, tpVars>>
       ELSE /\ IF sttService.onTranscriptCallback
               THEN processSegment(labeledText(speakerId, transcript), isFinal,
                                   DeepgramId(sttService.segmentCounter, isFinal))
               ELSE UNCHANGED tpVars
            /\ sttService' = [sttService EXCEPT !.segmentCounter =
                                    IF isFinal THEN @ + 1 ELSE @]
    /\ UNCHANGED <<svc, keys, cleared, liveSession, now, aqVars, webSpeechSTT, rtsVars>>

\* stop() of the Deepgram pipeline, with DeepgramSTT.stop().
DGStop ==
    /\ svc = "DG"
    /\ isActive' = FALSE
    /\ sttService' = IF sttService.ref
                     THEN [sttService EXCEPT !.ref = FALSE,
                                             !.connection = "none",
                                             !.isConnected = FALSE]
                     ELSE sttService
    /\ mediaStream' = IF sttService.ref THEN FALSE ELSE mediaStream
    /\ stopped' = IF starts > 0 THEN "pending" ELSE "settled"
    /\ UNCHANGED <<svc, keys, cleared, liveSession, now, aqVars, webSpeechSTT, translationCache,
                   processedSegments, tasks, delivered, evicted, pipelineState,
                   status, starts, stopReturned, reportVars>>

\* generateAndEmitTTS: generateStreamSpeech settled with a chunk stream, with
\* null, or by throwing. With a stream, and a DeepgramSTT in place, the
\* AudioContext and the AudioQueue are created if there are none (cs: the
\* state a new context starts in), and the chunks are awaited.
StreamSpeechSettled(t, out, cs) ==
    /\ svc = "DG"
    /\ t \in tasks /\ t.pc = "generateStreamSpeech"
    /\ IF out = "stream" /\ sttService.ref
       THEN /\ tasks' = Put({t}, [t EXCEPT !.pc = "chunks", !.cached = "none",
                                           !.engine = ""])
            /\ ctxState' = IF ctxState = "none" THEN cs ELSE ctxState
       ELSE /\ tasks' = Put({t}, [t EXCEPT !.pc = "done"])
            /\ UNCHANGED ctxState
    /\ UNCHANGED <<svc, keys, cleared, liveSession, now, queue, isPlaying, drains, nextItem, playLog,
                   webSpeechSTT, sttService, isActive, translationCache,
                   processedSegments, delivered, evicted, pipelineState,
                   rtsVars>>

\* generateAndEmitTTS: the stream is exhausted. With at least one chunk
\* (some) the audio is decoded and enqueued; the item is identified here by
\* the segment it belongs to.
ChunksSettled(t, some) ==
    /\ svc = "DG"
    /\ t \in tasks /\ t.pc = "chunks"
    /\ tasks' = Put({t}, [t EXCEPT !.pc = "done"])
    /\ IF some
       THEN enqueue([id |-> t.seq, ok |-> TRUE], ctxState)
       ELSE UNCHANGED <<queue, isPlaying, drains, playLog>>
    /\ UNCHANGED <<svc, keys, cleared, liveSession, now, ctxState, nextItem, webSpeechSTT, sttService,
                   isActive, translationCache, processedSegments, delivered,
                   evicted, pipelineState, rtsVars>>

(***************************************************************************)
(* One DeepgramSTT instance on its own (scenario "DS"). connection is the  *)
(* state of the provider connection this.connection refers to: "none"      *)
(* (null), "connecting", "open" or "closed". The provider also keeps the   *)
(* connections the instance made and no longer refers to: abandoned holds  *)
(* those that start() overwrote (each "connecting" or "open"), closing     *)
(* counts those stop() asked to close and whose Close event is pending.    *)
(* The event handlers of every connection act on the one instance.         *)
(***************************************************************************)
\* The live connections among s.connection and s.abandoned.
Live(c) == c \in {"connecting", "open"}

\* start(stream, callbacks): returns at once when isConnected; otherwise
\* stores the callbacks and assigns a new connection to this.connection.
DSStart ==
    /\ svc = "DS"
    /\ (~sttService.isConnected /\ Live(sttService.connection))
           => Len(sttService.abandoned) < MaxAbandoned
    /\ sttService' =
          IF sttService.isConnected THEN sttService
          ELSE [sttService EXCEPT
                  !.onTranscriptCallback = TRUE,
                  !.connection = "connecting",
                  !.abandoned = IF Live(sttService.connection)
                                THEN Append(@, sttService.connection) ELSE @]
    /\ UNCHANGED <<svc, keys, cleared, liveSession, now, aqVars, webSpeechSTT, ownerVars>>

\* LiveTranscriptionEvents.Open on the connection this.connection refers
\* to: isConnected is set and startSendingAudio starts a MediaRecorder.
DSOpen ==
    /\ svc = "DS"
    /\ sttService.connection = "connecting"
    /\ sttService' = [sttService EXCEPT !.connection = "open",
                                        !.isConnected = TRUE,
                                        !.mediaRecorder = TRUE]
    /\ UNCHANGED <<svc, keys, cleared, liveSession, now, aqVars, webSpeechSTT, ownerVars>>

\* LiveTranscriptionEvents.Open on abandoned connection i: the same handler;
\* startSendingAudio returns early when this.connection is null.
DSOpenAbandoned(i) ==
    /\ svc = "DS"
    /\ i \in 1..Len(sttService.abandoned)
    /\ sttService.abandoned[i] = "connecting"
    /\ sttService' = [sttService EXCEPT
            !.abandoned[i] = "open",
            !.isConnected = TRUE,
            !.mediaRecorder = IF sttService.connection # "none" THEN TRUE ELSE @]
    /\ UNCHANGED <<svc, keys, cleared, liveSession, now, aqVars, webSpeechSTT, ownerVars>>

\* LiveTranscriptionEvents.Close on the connection this.connection refers
\* to (the provider ends it).
DSClose ==
    /\ svc = "DS"
    /\ Live(sttService.connection)
    /\ sttService' = [sttService EXCEPT !.connection = "closed",
                                        !.isConnected = FALSE]
    /\ UNCHANGED <<svc, keys, cleared, liveSession, now, aqVars, webSpeechSTT, ownerVars>>

\* LiveTranscriptionEvents.Close on a connection stop() asked to close.
DSCloseRequested ==
    /\ svc = "DS"
    /\ sttService.closing > 0
    /\ sttService' = [sttService EXCEPT !.closing = @ - 1,
                                        !.isConnected = FALSE]
    /\ UNCHANGED <<svc, keys, cleared, liveSession, now, aqVars, webSpeechSTT, ownerVars>>

\* LiveTranscriptionEvents.Transcript on a connection that is open, the one
\* referred to or an abandoned one: handleTranscript.
DSTranscript(isFinal) ==
    /\ svc = "DS"
    /\ \/ sttService.connection = "open"
       \/ \E i \in 1..Len(sttService.abandoned) : sttService.abandoned[i] = "open"
    /\ sttService.segmentCounter < QueueSegments
    /\ sttService' =
            [Emitted(sttService, DeepgramId(sttService.segmentCounter, isFinal),
                     isFinal)
                EXCEPT !.segmentCounter = IF isFinal THEN @ + 1 ELSE @]
    /\ UNCHANGED <<svc, keys, cleared, liveSession, now, aqVars, webSpeechSTT, ownerVars>>

\* stop()
DSStop ==
    /\ svc = "DS"
    /\ sttService.closing < MaxClosing
    /\ sttService' = [sttService EXCEPT
            !.mediaRecorder = FALSE,
            !.connection = "none",
            !.closing = IF Live(sttService.connection) THEN @ + 1 ELSE @,
            !.isConnected = FALSE]
    /\ UNCHANGED <<svc, keys, cleared, liveSession, now, aqVars, webSpeechSTT, ownerVars>>

(***************************************************************************)
(* LiveSession (webrtcService.ts), scenario "LS"                           *)
(*                                                                         *)
(* liveSession is the object: session (is this.session set), gain (the     *)
(* target of gainNode.gain), nextStartTime, sources (the tracked sources,  *)
(* each with the interval the context plays it in).  connect is the        *)
(* position of the one connect() call App.tsx makes: "idle", "pending" at  *)
(* `await sessionPromise`, "done".  pending are the queueAudio()           *)
(* invocations suspended at `await this.audioContext.resume()`, oldest     *)
(* first.  interrupted is history: the server has signalled an             *)
(* interruption while sources were tracked, and no chunk has arrived       *)
(* since.  The clock of this                                               *)
(* scenario is the context's currentTime, which stands still while the     *)
(* context is suspended.  playLog records every source.start(startTime):   *)
(* the interval [start, end) the buffer is scheduled in, the time `cut` of *)
(* a stop() on the source (NoTime if there was none), the time `at` of the *)
(* start() call and, as `fresh`, whether the chunk was the first to arrive *)
(* after an interruption.  The scenario ends at disconnect(): what the     *)
(* server sends afterwards is not modelled.                                *)
(***************************************************************************)
ChunkDurations == {TickMs, 2 * TickMs}
\* What a message carries as inlineData: nothing, or data of some duration
\* that decodePcmAudioData() decodes or throws on.
NoAudio == [decodes |-> FALSE, duration |-> 0]
Corrupt == [decodes |-> FALSE, duration |-> TickMs]
AudioData == {NoAudio, Corrupt} \cup [decodes : {TRUE}, duration : ChunkDurations]
Volumes == {0, 1}

\* A scheduler that starts every chunk on arrival.
startOnArrival(nextStartTime, t) == t

\* Math.max(this.nextStartTime, now)
startTime(nextStartTime, t) == IF nextStartTime > t THEN nextStartTime ELSE t

\* The source queueAudio() creates for a chunk.
SourceOf(ls, chunk) ==
    [id |-> chunk.id,
     start |-> startTime(ls.nextStartTime, now),
     end |-> startTime(ls.nextStartTime, now) + chunk.data.duration]

\* queueAudio() from decodePcmAudioData() on; the catch drops a chunk that
\* does not decode.
schedule(ls, chunk) ==
    IF ~chunk.data.decodes THEN ls
    ELSE [ls EXCEPT !.nextStartTime = SourceOf(ls, chunk).end,
                    !.sources = @ \cup {SourceOf(ls, chunk)}]

LogScheduled(log, ls, chunk) ==
    IF ~chunk.data.decodes THEN log
    ELSE LET src == SourceOf(ls, chunk) IN
         Append(log, [id |-> src.id, start |-> src.start, end |-> src.end,
                      cut |-> NoTime, at |-> now, fresh |-> chunk.fresh])

\* queueAudio(): suspended at resume() if the context is suspended.
queueAudio(ls, chunk, cs) ==
    IF cs = "suspended"
    THEN [ls EXCEPT !.pending = Append(@, chunk)]
    ELSE schedule(ls, chunk)

\* clearAudioQueue()
clearAudioQueue(ls) == [ls EXCEPT !.sources = {}, !.nextStartTime = now]

\* The play log after source.stop() on every source of srcs.
LogStopped(log, srcs) ==
    [i \in 1..Len(log) |->
        IF \E src \in srcs : src.id = log[i].id
        THEN [log[i] EXCEPT !.cut = now]
        ELSE log[i]]

\* When the source of a play log entry falls silent: a source stopped before
\* its start time never sounds, one stopped while sounding ends at once.
SoundEnd(e) ==
    IF e.cut = NoTime \/ e.cut >= e.end THEN e.end
    ELSE IF e.cut <= e.start THEN e.start
    ELSE e.cut

\* A setVolume() that mutes by stopping what is scheduled.
setVolumeStopping(ls, volume) ==
    IF volume = 0 THEN [clearAudioQueue(ls) EXCEPT !.gain = 0]
    ELSE [ls EXCEPT !.gain = volume]

\* setVolume(volume)
setVolume(ls, volume) == [ls EXCEPT !.gain = volume]

LSSetVolume(volume) ==
    /\ svc = "LS"
    /\ liveSession' = setVolume(liveSession, volume)
    /\ UNCHANGED <<svc, keys, cleared, now, aqVars, webSpeechSTT, sttService, ownerVars>>

\* connect(), up to `await sessionPromise`.
LSConnect ==
    /\ svc = "LS"
    /\ liveSession.connect = "idle"
    /\ ctxState # "closed"
    /\ liveSession' = [liveSession EXCEPT !.nextStartTime = now,
                                          !.connect = "pending"]
    /\ UNCHANGED <<svc, keys, cleared, now, aqVars, webSpeechSTT, sttService, ownerVars>>

\* ai.live.connect() settles; connect() throws if it rejects.
LSConnectSettled(ok) ==
    /\ svc = "LS"
    /\ liveSession.connect = "pending"
    /\ liveSession' = [liveSession EXCEPT !.connect = "done",
                                          !.session = IF ok THEN TRUE ELSE @]
    /\ UNCHANGED <<svc, keys, cleared, now, aqVars, webSpeechSTT, sttService, ownerVars>>

\* callbacks.onmessage: a server message with audio data, an interruption,
\* or both.  The server sends messages on an open connection, and connect()
\* has set this.session by the time the first one is dispatched.
LSMessage(audioData, interrupted) ==
    /\ svc = "LS"
    /\ liveSession.session
    /\ ctxState # "closed"
    /\ audioData # NoAudio \/ interrupted
    /\ audioData # NoAudio => nextItem <= MaxChunks
    /\ LET chunk == [id |-> nextItem, data |-> audioData,
                     fresh |-> liveSession.interrupted]
           heard == IF audioData = NoAudio THEN liveSession
                    ELSE [queueAudio(liveSession, chunk, ctxState)
                             EXCEPT !.interrupted = FALSE]
           log == IF audioData = NoAudio \/ ctxState = "suspended" THEN playLog
                  ELSE LogScheduled(playLog, liveSession, chunk)
       IN /\ liveSession' = IF interrupted
                            THEN [clearAudioQueue(heard) EXCEPT
                                     !.interrupted = @ \/ heard.sources # {},
                                     !.discarded = IF audioData = NoAudio
                                                   THEN nextItem - 1
                                                   ELSE nextItem]
                            ELSE heard
          /\ playLog' = IF interrupted THEN LogStopped(log, heard.sources) ELSE log
          /\ nextItem' = IF audioData = NoAudio THEN nextItem ELSE nextItem + 1
    /\ UNCHANGED <<svc, keys, cleared, now, queue, isPlaying, ctxState, drains,
                   webSpeechSTT, sttService, ownerVars>>

\* The resume() the oldest suspended queueAudio() waits for settles: the
\* invocation goes on, or its catch drops the chunk.  resume() fails on a
\* closed context.
LSResumeSettled(ok) ==
    /\ svc = "LS"
    /\ liveSession.pending # << >>
    /\ ctxState = "closed" => ~ok
    /\ LET chunk == Head(liveSession.pending)
           rest == [liveSession EXCEPT !.pending = Tail(@)]
       IN IF ok
          THEN /\ ctxState' = "running"
               /\ liveSession' = schedule(rest, chunk)
               /\ playLog' = LogScheduled(playLog, rest, chunk)
          ELSE /\ liveSession' = rest
               /\ UNCHANGED <<ctxState, playLog>>
    /\ UNCHANGED <<svc, keys, cleared, now, queue, isPlaying, drains, nextItem,
                   webSpeechSTT, sttService, ownerVars>>

\* The browser suspends the audio context.
LSSuspend ==
    /\ svc = "LS"
    /\ ctxState = "running"
    /\ ctxState' = "suspended"
    /\ UNCHANGED <<svc, keys, cleared, liveSession, now, queue, isPlaying, drains, nextItem,
                   playLog, webSpeechSTT, sttService, ownerVars>>

\* source.onended of a tracked source.
LSSourceEnded(src) ==
    /\ svc = "LS"
    /\ src \in liveSession.sources
    /\ ctxState = "running"
    /\ src.end <= now
    /\ liveSession' = [liveSession EXCEPT !.sources = @ \ {src}]
    /\ UNCHANGED <<svc, keys, cleared, now, aqVars, webSpeechSTT, sttService, ownerVars>>

\* The context's time passes.
LSTick ==
    /\ svc = "LS"
    /\ ctxState = "running"
    /\ now + TickMs <= LiveTicks * TickMs
    /\ now' = now + TickMs
    /\ UNCHANGED <<svc, keys, cleared, liveSession, aqVars, webSpeechSTT, sttService, ownerVars>>

\* disconnect()
LSDisconnect ==
    /\ svc = "LS"
    /\ ctxState # "closed"
    /\ liveSession' = [clearAudioQueue(liveSession) EXCEPT !.session = FALSE]
    /\ playLog' = LogStopped(playLog, liveSession.sources)
    /\ ctxState' = "closed"
    /\ UNCHANGED <<svc, keys, cleared, now, queue, isPlaying, drains, nextItem,
                   webSpeechSTT, sttService, ownerVars>>

\* The LiveSession right after construction.
InitLive ==
    liveSession = [session |-> FALSE, connect |-> "idle", gain |-> 0,
                   nextStartTime |-> 0, sources |-> {}, pending |-> << >>,
                   interrupted |-> FALSE, discarded |-> 0]

(***************************************************************************)
(* RealtimeTranslationService, in 'discrete-tts' mode without an output    *)
(* device, as ConsentDialog.tsx configures it. status is what the service  *)
(* last reported through events.onStatusChange ("idle" before any report). *)
(* A cache entry carries, as history, the time it was stored at; the       *)
(* service itself stores the translated text only.                         *)
(***************************************************************************)
\* handleTranscript: `${sourceLang}:${segment.text}:${targetLang}`
serviceCacheKey(source, text, target) == source \o ":" \o text \o ":" \o target
rtsCacheKey(text) == serviceCacheKey(sourceLang, text, targetLang)

\* "Evict oldest if cache is too large"
rtsEvict(m) == IF Len(m) > CACHE_SIZE_LIMIT THEN MapDeleteFirst(m) ELSE m

rtsCacheSet(m, text, translated) ==
    MapSet(m, rtsCacheKey(text), [translatedText |-> translated, timestamp |-> now])

\* handleTranscript: `let translatedText = cache.get(cacheKey)` is truthy.
rtsCacheHit(m, text) ==
    /\ MapHas(m, rtsCacheKey(text))
    /\ MapGet(m, rtsCacheKey(text)).translatedText # ""

\* A start() without the 'Already active' guard.
RTSStartAgain ==
    /\ svc \in ServiceScenarios
    /\ starts < MaxStarts
    /\ status' = "listening"
    /\ isActive' = TRUE
    /\ starts' = starts + 1
    /\ stopReturned' = FALSE
    /\ stopped' = "no"
    /\ UNCHANGED <<svc, keys, cleared, liveSession, now, aqVars, webSpeechSTT, sttService, translationCache,
                   processedSegments, tasks, delivered, evicted, pipelineState,
                   mediaStream>>
    /\ NoReport

\* start() up to `await getUserMedia`; on an active service it returns at
\* 'Already active'.
RTSStart ==
    /\ svc \in ServiceScenarios
    /\ starts < MaxStarts
    /\ IF isActive
       THEN UNCHANGED <<status, isActive, starts, stopReturned, stopped>>
       ELSE /\ status' = "listening"
            /\ isActive' = TRUE
            /\ starts' = starts + 1
            /\ stopReturned' = FALSE
            /\ stopped' = "no"
    /\ UNCHANGED <<svc, keys, cleared, liveSession, now, aqVars, webSpeechSTT, sttService, translationCache,
                   processedSegments, tasks, delivered, evicted, pipelineState,
                   mediaStream>>
    /\ NoReport

\* getUserMedia settled. With a stream (ok) the AudioContext is created and
\* the recogniser started; a recogniser that does not start, like a rejected
\* getUserMedia, takes start() to its catch block.
RTSMediaSettled(ok) ==
    /\ svc \in ServiceScenarios
    /\ starts > 0
    /\ starts' = starts - 1
    /\ stopReturned' = FALSE
    /\ IF ok
       THEN LET l == sttSetLanguage(webSpeechSTT)
                r == sttStart(l.stt)
            IN /\ mediaStream' = TRUE
               /\ ctxState' = "running"
               /\ webSpeechSTT' = ownerStarted(r.stt)
               /\ status' = IF l.onError \/ r.onError \/ ~r.started
                            THEN "error" ELSE status
               /\ isActive' = IF r.started THEN isActive ELSE FALSE
               /\ onErrorCalls' = (IF l.onError THEN 1 ELSE 0)
                                   + (IF r.onError THEN 1 ELSE 0)
                                   + (IF r.started THEN 0 ELSE 1)
       ELSE /\ status' = "error"
            /\ isActive' = FALSE
            /\ onErrorCalls' = 1
            /\ UNCHANGED <<mediaStream, ctxState, webSpeechSTT>>
    /\ UNCHANGED <<svc, keys, cleared, liveSession, now, queue, isPlaying, drains, nextItem, playLog,
                   sttService, translationCache, processedSegments, tasks,
                   delivered, evicted, pipelineState, stopped>>
    /\ synth' = ""

\* stop()
RTSStop ==
    /\ svc = "RTS"
    /\ stopReturned' = TRUE
    /\ stopped' = IF starts > 0 THEN "pending" ELSE "settled"
    /\ IF ~isActive
       THEN UNCHANGED <<webSpeechSTT, mediaStream, ctxState, isActive, status>>
       ELSE /\ webSpeechSTT' = ownerStopped(sttStop(webSpeechSTT))
            /\ mediaStream' = FALSE
            /\ ctxState' = "none"
            /\ isActive' = FALSE
            /\ status' = "idle"
    /\ UNCHANGED <<svc, keys, cleared, liveSession, now, queue, isPlaying, drains, nextItem, playLog,
                   sttService, translationCache, processedSegments, tasks,
                   delivered, evicted, pipelineState, starts>>
    /\ NoReport

\* handleTranscript(segment) up to its first await. A cached translation is
\* used at once and playDiscreteTTS entered; otherwise the engine is awaited.
handleTranscript(text, isFinal) ==
    IF ~isActive \/ trim(text) = "" \/ ~isFinal
    THEN UNCHANGED <<tpVars, serviceVars>> /\ NoReport
    ELSE LET t == [NewTask(delivered + 1, text, isFinal, "") EXCEPT
                      !.cached = EntryAge(translationCache, rtsCacheKey(text))]
         IN /\ IF rtsCacheHit(translationCache, text)
               THEN /\ tasks' = Put({}, [t EXCEPT !.pc = "generateSpeech",
                                                  !.text = ""])
                    /\ status' = "speaking"
               ELSE /\ tasks' = Put({}, [t EXCEPT !.pc = "translateText"])
                    /\ status' = "translating"
            /\ delivered' = delivered + 1
            /\ stopReturned' = FALSE
            /\ UNCHANGED <<isActive, translationCache, processedSegments,
                           evicted, pipelineState, starts, mediaStream, stopped>>
            /\ NoReport

\* translateText settled: the result is cached, the cache trimmed, and
\* playDiscreteTTS entered.
RTSTranslateSettled(t, outcome) ==
    /\ svc \in ServiceScenarios
    /\ t \in tasks /\ t.pc = "translateText"
    /\ LET translated == translateText(t.text, outcome)
           stored == rtsCacheSet(translationCache, t.text, translated)
       IN /\ translationCache' = rtsEvict(stored)
          /\ evicted' = (evicted \/ Len(rtsEvict(stored)) < Len(stored))
    /\ tasks' = Put({t}, [t EXCEPT !.pc = "generateSpeech", !.text = "",
                                   !.cached = "none",
                                   !.engine = EngineResult(outcome)])
    /\ status' = "speaking"
    /\ stopReturned' = FALSE
    /\ UNCHANGED <<svc, keys, cleared, liveSession, now, aqVars, webSpeechSTT, sttService, isActive,
                   processedSegments, delivered, pipelineState, starts,
                   mediaStream, stopped>>
    /\ NoReport

\* A playDiscreteTTS that goes on to decode whatever the synthesizer answers.
decodesAnyAnswer(audioBase64, cs) == cs # "none"

\* playDiscreteTTS: `if (audioBase64 && this.audioContext)`
decodesAudio(audioBase64, cs) == audioBase64 /\ cs # "none"

\* playDiscreteTTS: generateSpeech settled, with audio or with null; without
\* audio, or without an AudioContext, handleTranscript reports 'listening'.
RTSSpeechSettled(t, audio) ==
    /\ svc \in ServiceScenarios
    /\ t \in tasks /\ t.pc = "generateSpeech"
    /\ IF decodesAudio(audio, ctxState)
       THEN /\ tasks' = Put({t}, [t EXCEPT !.pc = "decodeAudioData",
                                           !.cached = "none", !.engine = ""])
            /\ UNCHANGED status
       ELSE /\ tasks' = Put({t}, [t EXCEPT !.pc = "done"])
            /\ status' = "listening"
    /\ stopReturned' = FALSE
    /\ onErrorCalls' = 0
    /\ synth' = IF audio THEN "audio" ELSE "null"
    /\ UNCHANGED <<svc, keys, cleared, liveSession, now, aqVars, webSpeechSTT, sttService, isActive,
                   translationCache, processedSegments, delivered, evicted,
                   pipelineState, starts, mediaStream, stopped>>

\* A playDiscreteTTS that does not wait for the source to end: 'listening' is
\* reported as soon as the source has been started.
RTSDecodeSettledNoWait(t, ok) ==
    /\ svc \in ServiceScenarios
    /\ t \in tasks /\ t.pc = "decodeAudioData"
    /\ tasks' = Put({t}, [t EXCEPT !.pc = IF ok /\ ctxState # "none"
                                          THEN "playing" ELSE "done"])
    /\ onErrorCalls' = IF ok /\ ctxState # "none" THEN 0 ELSE 1
    /\ status' = "listening"
    /\ synth' = ""
    /\ stopReturned' = FALSE
    /\ UNCHANGED <<svc, keys, cleared, liveSession, now, aqVars, webSpeechSTT, sttService, isActive,
                   translationCache, processedSegments, delivered, evicted,
                   pipelineState, starts, mediaStream, stopped>>

\* playDiscreteTTS: decodeAudioData settled. Decoded audio is started on the
\* AudioContext; a failure (also: the context is gone) is caught and
\* handleTranscript reports 'listening'.
RTSDecodeSettled(t, ok) ==
    /\ svc \in ServiceScenarios
    /\ t \in tasks /\ t.pc = "decodeAudioData"
    /\ IF ok /\ ctxState # "none"
       THEN /\ tasks' = Put({t}, [t EXCEPT !.pc = "playing"])
            /\ onErrorCalls' = 0
            /\ UNCHANGED status
       ELSE /\ tasks' = Put({t}, [t EXCEPT !.pc = "done"])
            /\ onErrorCalls' = 1
            /\ status' = "listening"
    /\ synth' = ""
    /\ stopReturned' = FALSE
    /\ UNCHANGED <<svc, keys, cleared, liveSession, now, aqVars, webSpeechSTT, sttService, isActive,
                   translationCache, processedSegments, delivered, evicted,
                   pipelineState, starts, mediaStream, stopped>>

\* playDiscreteTTS: source.onended fires; handleTranscript reports 'listening'.
RTSSourceEnded(t) ==
    /\ svc \in ServiceScenarios
    /\ t \in tasks /\ t.pc = "playing"
    /\ tasks' = Put({t}, [t EXCEPT !.pc = "done"])
    /\ status' = "listening"
    /\ stopReturned' = FALSE
    /\ NoReport
    /\ UNCHANGED <<svc, keys, cleared, liveSession, now, aqVars, webSpeechSTT, sttService, isActive,
                   translationCache, processedSegments, delivered, evicted,
                   pipelineState, starts, mediaStream, stopped>>

\* The RealtimeTranslationService right after construction.
InitService ==
    /\ status = "idle"
    /\ starts = 0
    /\ stopReturned = FALSE
    /\ mediaStream = FALSE
    /\ onErrorCalls = 0
    /\ synth = ""
    /\ stopped = "no"

(***************************************************************************)
(* Events of the recogniser and the timers of WebSpeechSTT. The callbacks  *)
(* are those of the pipeline or service that started the recogniser.       *)
(***************************************************************************)
\* What the owner's onTranscript callback does with a segment.
OnTranscript(text, isFinal, segmentId) ==
    IF svc = "WS" THEN UNCHANGED <<tpVars, rtsVars>>
    ELSE IF svc \in ServiceScenarios
    THEN handleTranscript(text, isFinal)
    ELSE processSegment(text, isFinal, segmentId) /\ UNCHANGED rtsVars

\* What the owner's onError callback does (called: whether it is invoked).
OnError(called) ==
    IF svc = "WS" THEN UNCHANGED <<tpVars, rtsVars>>
    ELSE IF svc \in ServiceScenarios
    THEN /\ status' = IF called THEN "error" ELSE status
         /\ stopReturned' = IF called THEN FALSE ELSE stopReturned
         /\ onErrorCalls' = IF called THEN 1 ELSE 0
         /\ synth' = ""
         /\ UNCHANGED <<tpVars, starts, mediaStream, stopped>>
    ELSE /\ pipelineState' = AppOnError(called)
         /\ UNCHANGED <<isActive, translationCache, processedSegments, tasks,
                        delivered, evicted, rtsVars>>

RecOnStart ==
    /\ svc \in WebSpeechScenarios
    /\ webSpeechSTT.recognition = "starting"
    /\ webSpeechSTT' = [webSpeechSTT EXCEPT !.recognition = "running",
                                            !.isRecognizing = TRUE]
    /\ NoReport
    /\ UNCHANGED <<svc, keys, cleared, liveSession, now, aqVars, sttService, tpVars, serviceVars>>

RecOnResult(text, isFinal) ==
    /\ svc \in WebSpeechScenarios
    /\ text \in ScenarioTexts
    /\ webSpeechSTT.recognition \in {"running", "stopping"}
    /\ webSpeechSTT.segmentCounter < SegmentBound
    /\ delivered < SegmentBound
    /\ Cardinality(tasks) < MaxInFlight
    /\ IF webSpeechSTT.onTranscriptCallback
       THEN OnTranscript(text, isFinal,
                         SegmentId(webSpeechSTT.segmentCounter, isFinal))
       ELSE UNCHANGED <<tpVars, serviceVars>> /\ NoReport
    /\ webSpeechSTT' =
            [Emitted(webSpeechSTT, SegmentId(webSpeechSTT.segmentCounter, isFinal),
                     isFinal)
                EXCEPT !.segmentCounter = IF isFinal THEN @ + 1 ELSE @]
    /\ UNCHANGED <<svc, keys, cleared, liveSession, now, aqVars, sttService>>

RecOnError(error) ==
    /\ svc \in WebSpeechScenarios \ CacheScenarios
    /\ webSpeechSTT.recognition # "inactive"
    /\ webSpeechSTT.errorEvents < MaxErrors
    /\ OnError(webSpeechSTT.onTranscriptCallback)
    /\ webSpeechSTT' = [webSpeechSTT EXCEPT
            !.errorEvents = @ + 1,
            !.lastError = error,
            !.restartTimers = IF error = "network" /\ webSpeechSTT.isRecognizing
                              THEN @ + 1 ELSE @]
    /\ UNCHANGED <<svc, keys, cleared, liveSession, now, aqVars, sttService>>

RecOnEnd ==
    /\ svc \in WebSpeechScenarios \ CacheScenarios
    /\ webSpeechSTT.recognition # "inactive"
    /\ webSpeechSTT' = [webSpeechSTT EXCEPT !.recognition =
                            IF webSpeechSTT.isRecognizing THEN "starting"
                            ELSE "inactive"]
    /\ NoReport
    /\ UNCHANGED <<svc, keys, cleared, liveSession, now, aqVars, sttService, tpVars, serviceVars>>

\* setTimeout(() => this.restart(), 1000) fires: restart() stops and arms
\* the 500 ms timer.
RestartTimerFires ==
    /\ svc \in WebSpeechScenarios
    /\ webSpeechSTT.restartTimers > 0
    /\ webSpeechSTT' = [sttStop(webSpeechSTT) EXCEPT !.restartTimers = @ - 1,
                                                     !.startTimers = @ + 1]
    /\ NoReport
    /\ UNCHANGED <<svc, keys, cleared, liveSession, now, aqVars, sttService, tpVars, serviceVars>>

\* The 500 ms timer of restart() fires: start() with the stored callbacks.
StartTimerFires ==
    /\ svc \in WebSpeechScenarios
    /\ webSpeechSTT.startTimers > 0
    /\ LET s == [webSpeechSTT EXCEPT !.startTimers = @ - 1]
           r == sttStart(s)
       IN IF s.onTranscriptCallback
          THEN webSpeechSTT' = r.stt /\ OnError(r.onError)
          ELSE /\ webSpeechSTT' = s
               /\ UNCHANGED <<tpVars, serviceVars>> /\ NoReport
    /\ UNCHANGED <<svc, keys, cleared, liveSession, now, aqVars, sttService>>

\* The caller of the stand-alone WebSpeechSTT: start(callbacks),
WSStart ==
    /\ svc = "WS"
    /\ webSpeechSTT' = ownerStarted(sttStart(webSpeechSTT).stt)
    /\ UNCHANGED <<svc, keys, cleared, liveSession, now, aqVars, sttService, ownerVars>>

\* stop(),
WSStop ==
    /\ svc = "WS"
    /\ webSpeechSTT' = ownerStopped(sttStop(webSpeechSTT))
    /\ UNCHANGED <<svc, keys, cleared, liveSession, now, aqVars, sttService, ownerVars>>

\* and setLanguage(lang).
WSSetLanguage ==
    /\ svc = "WS"
    /\ webSpeechSTT' = ownerStarted(sttSetLanguage(webSpeechSTT).stt)
    /\ UNCHANGED <<svc, keys, cleared, liveSession, now, aqVars, sttService, ownerVars>>

\* Time passes (cache scenarios), a time-to-live at a time.
TickTtl ==
    /\ svc \in CacheScenarios
    /\ now < MaxTtlTicks * CACHE_TTL_MS
    /\ now' = now + CACHE_TTL_MS
    /\ NoReport
    /\ UNCHANGED <<svc, keys, cleared, liveSession, aqVars, webSpeechSTT, sttService, tpVars, serviceVars>>

(***************************************************************************)
(* Specifications, one per object under study.                             *)
(***************************************************************************)
(***************************************************************************)
(* Cache keys. Two translation requests, a and b, are given; each cache's  *)
(* key is computed for both.                                                *)
(***************************************************************************)
NoKeys == [a |-> [sourceLang |-> sourceLang, text |-> "", targetLang |-> targetLang],
           b |-> [sourceLang |-> sourceLang, text |-> "", targetLang |-> targetLang],
           pipeline |-> <<>>, service |-> <<>>]

InitKeys ==
    keys \in IF svc = "KEY"
             THEN [a : Triples, b : Triples, pipeline : {<<>>}, service : {<<>>}]
             ELSE {NoKeys}

\* TranslationPipeline.translateWithCache computes the key of a and of b.
PipelineKeys ==
    /\ svc = "KEY" /\ keys.pipeline = <<>>
    /\ keys' = [keys EXCEPT !.pipeline =
            <<pipelineCacheKey(keys.a.sourceLang, keys.a.text, keys.a.targetLang),
              pipelineCacheKey(keys.b.sourceLang, keys.b.text, keys.b.targetLang)>>]
    /\ UNCHANGED <<svc, cleared, liveSession, now, aqVars, webSpeechSTT, sttService,
                   ownerVars>>

\* RealtimeTranslationService.handleTranscript computes the key of a and of b.
ServiceKeys ==
    /\ svc = "KEY" /\ keys.service = <<>>
    /\ keys' = [keys EXCEPT !.service =
            <<serviceCacheKey(keys.a.sourceLang, keys.a.text, keys.a.targetLang),
              serviceCacheKey(keys.b.sourceLang, keys.b.text, keys.b.targetLang)>>]
    /\ UNCHANGED <<svc, cleared, liveSession, now, aqVars, webSpeechSTT, sttService,
                   ownerVars>>

InitAll ==
    /\ now = 0
    /\ InitKeys
    /\ InitQueue /\ InitSTT /\ InitDeepgram /\ InitPipeline /\ InitService
    /\ InitLive

InitAQ == svc = "AQ" /\ InitAll /\ ctxState \in {"running", "suspended"}
InitTP == svc = "TP" /\ InitAll /\ ctxState = "none"
InitDG == svc = "DG" /\ InitAll /\ ctxState = "none"
InitDS == svc = "DS" /\ InitAll /\ ctxState = "none"
InitLS == svc = "LS" /\ InitAll /\ ctxState \in {"running", "suspended"}
InitRTS == svc = "RTS" /\ InitAll /\ ctxState = "none"
InitCache == svc \in CacheScenarios /\ InitAll /\ ctxState = "none"
InitWS == svc = "WS" /\ InitAll /\ ctxState = "none"
InitKEY == svc = "KEY" /\ InitAll /\ ctxState = "none"

NextAQ ==
    \/ \E item \in AudioQueueItem : CallEnqueue(item)
    \/ \E d \in drains, ok \in BOOLEAN : ResumeSettled(d, ok)
    \/ \E d \in drains : SourceEnded(d)
    \/ \E d \in drains : GapElapsed(d)
    \/ clear
    \/ Tick

RecognitionErrors == {"no-speech", "network", "not-allowed", "audio-capture"}

NextTP ==
    \/ TPStart
    \/ TPStop
    \/ RecOnStart
    \/ \E text \in Texts, isFinal \in BOOLEAN : RecOnResult(text, isFinal)
    \/ \E error \in RecognitionErrors : RecOnError(error)
    \/ RecOnEnd
    \/ RestartTimerFires
    \/ StartTimerFires
    \/ \E t \in tasks, saved \in BOOLEAN : SaveSegmentSettled(t, saved)
    \/ \E t \in tasks, outcome \in EngineOutcomes : TranslateSettled(t, outcome)
    \/ \E t \in tasks : SaveTranslationSettled(t)
    \/ \E t \in tasks, audio \in BOOLEAN : SpeechSettled(t, audio)
    \/ \E t \in tasks, ok \in BOOLEAN : DecodeSettled(t, ok)
    \/ \E t \in tasks : AppSourceEnded(t)

NextDG ==
    \/ \E apiKey \in BOOLEAN : DGStart(apiKey)
    \/ \E ok \in BOOLEAN : DGMediaSettled(ok)
    \/ DGOpen
    \/ \E text \in ScenarioTexts, isFinal \in BOOLEAN : DGTranscript(text, isFinal)
    \/ DGStop
    \/ \E t \in tasks, saved \in BOOLEAN : SaveSegmentSettled(t, saved)
    \/ \E t \in tasks, outcome \in EngineOutcomes : TranslateSettled(t, outcome)
    \/ \E t \in tasks : SaveTranslationSettled(t)
    \/ \E t \in tasks, out \in {"stream", "null", "throw"},
          cs \in {"running", "suspended"} : StreamSpeechSettled(t, out, cs)
    \/ \E t \in tasks, some \in BOOLEAN : ChunksSettled(t, some)
    \/ \E d \in drains, ok \in BOOLEAN : ResumeSettled(d, ok)
    \/ \E d \in drains : SourceEnded(d)
    \/ \E d \in drains : GapElapsed(d)
    \/ Tick

NextDS ==
    \/ DSStart
    \/ DSOpen
    \/ \E i \in 1..MaxAbandoned : DSOpenAbandoned(i)
    \/ DSClose
    \/ DSCloseRequested
    \/ \E isFinal \in BOOLEAN : DSTranscript(isFinal)
    \/ DSStop

NextLS ==
    \/ LSConnect
    \/ \E ok \in BOOLEAN : LSConnectSettled(ok)
    \/ \E audioData \in AudioData, interrupted \in BOOLEAN :
            LSMessage(audioData, interrupted)
    \/ \E ok \in BOOLEAN : LSResumeSettled(ok)
    \/ LSSuspend
    \/ \E src \in liveSession.sources : LSSourceEnded(src)
    \/ LSTick
    \/ \E volume \in Volumes : LSSetVolume(volume)
    \/ LSDisconnect

NextRTS ==
    \/ RTSStart
    \/ \E ok \in BOOLEAN : RTSMediaSettled(ok)
    \/ RTSStop
    \/ RecOnStart
    \/ \E text \in Texts, isFinal \in BOOLEAN : RecOnResult(text, isFinal)
    \/ \E error \in RecognitionErrors : RecOnError(error)
    \/ RecOnEnd
    \/ RestartTimerFires
    \/ StartTimerFires
    \/ \E t \in tasks, outcome \in EngineOutcomes : RTSTranslateSettled(t, outcome)
    \/ \E t \in tasks, audio \in BOOLEAN : RTSSpeechSettled(t, audio)
    \/ \E t \in tasks, ok \in BOOLEAN : RTSDecodeSettled(t, ok)
    \/ \E t \in tasks : RTSSourceEnded(t)

NextCache ==
    \/ TPStart
    \/ RTSStart
    \/ RTSMediaSettled(TRUE)
    \/ RecOnStart
    \/ \E text \in Texts, isFinal \in BOOLEAN : RecOnResult(text, isFinal)
    \/ \E t \in tasks : SaveSegmentSettled(t, FALSE)
    \/ \E t \in tasks, outcome \in CacheOutcomes : TranslateSettled(t, outcome)
    \/ \E t \in tasks, outcome \in CacheOutcomes : RTSTranslateSettled(t, outcome)
    \/ \E t \in tasks : RTSSpeechSettled(t, FALSE)
    \/ TickTtl

SpecAQ == InitAQ /\ [][NextAQ]_vars
SpecTP == InitTP /\ [][NextTP]_vars
SpecDG == InitDG /\ [][NextDG]_vars
SpecDS == InitDS /\ [][NextDS]_vars

SpecLS == InitLS /\ [][NextLS]_vars
SpecRTS == InitRTS /\ [][NextRTS]_vars
SpecCache == InitCache /\ [][NextCache]_vars

NextWS ==
    \/ WSStart
    \/ WSStop
    \/ WSSetLanguage
    \/ RecOnStart
    \/ \E text \in Texts, isFinal \in BOOLEAN : RecOnResult(text, isFinal)
    \/ \E error \in RecognitionErrors : RecOnError(error)
    \/ RecOnEnd
    \/ RestartTimerFires
    \/ StartTimerFires

\* One transcript source on its own: a DeepgramSTT or the WebSpeechSTT.
InitSources == InitDS \/ InitWS
NextSources == NextDS \/ NextWS
SpecSources == InitSources /\ [][NextSources]_vars

NextKEY == PipelineKeys \/ ServiceKeys
SpecKEY == InitKEY /\ [][NextKEY]_vars

(***************************************************************************)
(* Properties                                                              *)
(***************************************************************************)
\* The sources of the AudioQueue that are sounding: started, not yet ended.
Sounding == {d \in drains : d.pc = "onended"}

\* C1: at most one item's audio source of one AudioQueue is playing at any
\* time, whatever the sequence of enqueue(), clear(), onended and timer events.
C1_NoOverlap == Cardinality(Sounding) <= 1

\* C2: of two items played consecutively by one AudioQueue, the second is
\* started no earlier than gapMs after the first one's onended fired.
C2_GapBetweenItems ==
    \A i \in 1..(Len(playLog) - 1) :
        /\ playLog[i].end # NoTime
        /\ playLog[i + 1].start >= playLog[i].end + gapMs

\* The segments whose audio has left the queue, and those still waiting.
Taken == {playLog[i].id : i \in 1..Len(playLog)} \cup {d.item.id : d \in drains}

\* C3: the Deepgram pipeline enqueues the audio of final segments in the order
\* in which the segments were delivered: audio waiting in the queue belongs
\* to later segments than any audio taken from the queue before it, the
\* queue is in delivery order, and so is the order in which sources started.
C3_EnqueuedInDeliveryOrder ==
    /\ \A i \in 1..Len(queue) : \A id \in Taken : id < queue[i].id
    /\ \A i \in 1..(Len(queue) - 1) : queue[i].id < queue[i + 1].id
    /\ \A i \in 1..(Len(playLog) - 1) : playLog[i].id < playLog[i + 1].id

\* C4: in the discrete path of RealtimeTranslationService two synthesized
\* utterances are never playing at the same time.
C4_OneUtteranceAtATime == Cardinality({t \in tasks : t.pc = "playing"}) <= 1

\* C5: a translation asked for while the cache holds an entry for the same
\* (sourceLang, text, targetLang) younger than the time-to-live is answered
\* from the cache: the external engine is not called.
C5_SecondCallIsAHit ==
    \A t \in tasks : t.pc = "translateText" => t.cached # "live"

\* The capacity of the cache of the pipeline / service under study.
Capacity == IF svc \in ServiceScenarios THEN CACHE_SIZE_LIMIT ELSE MAX_CACHE_SIZE

\* C6: the translation cache never holds more entries than its capacity,
\* whatever the interleaving of concurrent translations.
C6_CacheBounded == Len(translationCache) <= Capacity

\* C6 (witness): translations were in flight at the same time, a store has
\* made the cache exceed its capacity, and an entry was dropped.
C6_Witness ==
    /\ evicted
    /\ Len(translationCache) = Capacity
    /\ \E t \in tasks : t.pc = "translateText"

\* A step of the pipeline's cache drops no entry but the one with the
\* smallest creation timestamp among the entries present.
DropsOldestOnly ==
    svc \in PipelineScenarios =>
    \A i \in 1..Len(translationCache) :
        ~MapHas(translationCache', translationCache[i].key)
        => \A j \in 1..Len(translationCache) :
              translationCache[i].value.timestamp
                  <= translationCache[j].value.timestamp

\* C7: whenever a store makes the pipeline's cache exceed its capacity, the
\* entry removed is the one with the smallest creation timestamp among the
\* entries present.
C7_EvictsOldest == [][DropsOldestOnly]_vars

\* C8: a cached translation whose age is at least the time-to-live is never
\* returned: a handler that found an expired entry awaits the engine.
C8_ExpiredNeverReturned ==
    \A t \in tasks : t.cached = "expired" => t.pc = "translateText"

\* C9: a segment with isFinal = FALSE never causes a call to the translator.
C9_InterimNotTranslated ==
    \A t \in tasks : t.pc = "translateText" => t.isFinal

\* C10: when stop() of a RealtimeTranslationService returns, the status last
\* reported is 'idle', whatever state the service was in.
C10_StopReportsIdle == stopReturned => status = "idle"

\* A step taken after stop() has returned, other than a call of start(),
\* reports no status to the caller.
SilentWhileStopped ==
    (stopped # "no" /\ stopped' # "no") => status' = status

\* C11: after stop() has returned, no caller-visible callback fires until the
\* next start(): here, no status reaches onStatusChange, not even for a
\* start() or a segment whose processing began before stop().
C11_SilentAfterStop == [][SilentWhileStopped]_vars

\* A step that ends with the pipeline stopped leaves no item pending in the
\* AudioQueue, and a step taken while it is stopped starts no source.
QueueQuietWhileStopped ==
    stopped' # "no" =>
        /\ queue' = << >>
        /\ stopped # "no" => Len(playLog') = Len(playLog)

\* C12: after stop() of the Deepgram-based TranslationPipeline its AudioQueue
\* holds no pending item and no audio item is started afterwards, items
\* produced by a generateAndEmitTTS call in progress at stop() included.
C12_QueueClearedByStop == [][QueueQuietWhileStopped]_vars

\* The instance holds no recognition session that runs or is about to, no
\* provider connection and no live media stream.
HoldsNothing ==
    /\ ~webSpeechSTT.isRecognizing
    /\ webSpeechSTT.recognition \in {"inactive", "stopping"}
    /\ sttService.connection = "none"
    /\ ~mediaStream

\* C13: if stop() is called while start() is still suspended at the request
\* for the microphone, then once start() has settled the instance holds no
\* running recognition session, no open provider connection and no live
\* media stream.
C13_StopDuringStart == (stopped = "pending" /\ starts = 0) => HoldsNothing

\* A step starts the recogniser: recognition.start() is called with success.
RecognitionStarted ==
    /\ webSpeechSTT'.recognition = "starting"
    /\ webSpeechSTT.recognition # "starting"

\* While the owner's last call is stop(), no step starts the recogniser.
NoStartWhileStopCalled ==
    (webSpeechSTT.stopCalled /\ webSpeechSTT'.stopCalled) => ~RecognitionStarted

\* C14: after WebSpeechSTT.stop(), recognition is never started again unless
\* the owner calls start() or setLanguage(), even if a network error came
\* shortly before stop() and its restart timers are still pending.
C14_NoRestartAfterStop == [][NoStartWhileStopCalled]_vars

\* The handler is at, or on its way to, the synthesizer.
Synthesizing(t) ==
    t.pc \in {"saveTranslation", "generateSpeech", "generateStreamSpeech"}

\* C15: when the translation engine fails for a final segment, the pipeline
\* signals an error and does not proceed to synthesis: no handler whose
\* engine call failed goes on towards the synthesizer.
C15_EngineFailureStops ==
    \A t \in tasks : (t.isFinal /\ t.engine = "failed") => ~Synthesizing(t)

\* A handler that leaves its engine call either goes on with a non-empty
\* answer, or returns with 'listening' reported and no synthesizer call.
EmptyAnswerSkipsSpeech ==
    svc \in ServiceScenarios =>
    \A t \in tasks :
        (t.pc = "translateText" /\ t \notin tasks') =>
            \/ \E u \in tasks' : u.seq = t.seq /\ u.engine # "empty"
            \/ (status' = "listening" /\ \A u \in tasks' : u.seq # t.seq)

\* C16: in RealtimeTranslationService, when the translation result for a
\* final segment is empty, the status goes from 'translating' to 'listening'
\* without passing through 'speaking' and the synthesizer is not called.
C16_EmptyTranslationSkipsSpeech == [][EmptyAnswerSkipsSpeech]_vars

\* A step in which the synthesizer answers null makes no handler go on to
\* decoding or playback, calls no onError, and reports 'listening'.
NullAudioIsQuiet ==
    (svc \in ServiceScenarios /\ synth' = "null") =>
        /\ \A u \in tasks' : u.pc \in {"decodeAudioData", "playing"} => u \in tasks
        /\ onErrorCalls' = 0
        /\ status' = "listening"

\* C17: when the synthesizer returns null for a final segment, the
\* RealtimeTranslationService starts no playback, does not invoke onError and
\* does not report 'error'; the next status it reports is 'listening'.
C17_NullAudioIsQuiet == [][NullAudioIsQuiet]_vars

\* C17 (witness): the synthesizer has just answered null to a running
\* service that has its AudioContext, while another segment is in flight.
C17_Witness ==
    /\ svc = "RTS" /\ synth = "null"
    /\ isActive /\ ctxState # "none"
    /\ status = "listening" /\ onErrorCalls = 0
    /\ tasks # {}

\* After 'error' the service reports nothing but 'idle' (which only stop()
\* reports), a new call of start() apart.
ErrorLeftOnlyByStop ==
    (status = "error" /\ status' # "error" /\ ~(~isActive /\ isActive'))
        => status' = "idle"

\* C18: once the RealtimeTranslationService has reported 'error', the only
\* status it reports next is 'idle', caused by stop().
C18_ErrorLeftOnlyByStop == [][ErrorLeftOnlyByStop]_vars

\* The step is the recogniser's error event with the given error code.
ErrorEvent(error) ==
    /\ webSpeechSTT'.errorEvents = webSpeechSTT.errorEvents + 1
    /\ webSpeechSTT'.lastError = error

\* A no-speech error reaching an active service calls onError once, arms no
\* restart and starts no recognition, and does not make 'error' the status.
NoSpeechIsBenign ==
    (svc \in ServiceScenarios /\ isActive /\ ErrorEvent("no-speech")) =>
        /\ onErrorCalls' = 1
        /\ webSpeechSTT'.restartTimers = webSpeechSTT.restartTimers
        /\ webSpeechSTT'.startTimers = webSpeechSTT.startTimers
        /\ ~RecognitionStarted
        /\ status' = "error" => status = "error"

\* C19: when WebSpeechSTT reports a no-speech error while the
\* RealtimeTranslationService is active, the caller's error callback fires
\* exactly once, no restart of recognition is attempted, and the status
\* 'error' is not reported.
C19_NoSpeechIsBenign == [][NoSpeechIsBenign]_vars

\* Error codes after which recognition must wait for the owner.
FatalErrors == {"not-allowed", "audio-capture"}

\* With no call by the owner in between: after a not-allowed or
\* audio-capture error no step starts the recogniser; after a network error
\* a step that starts it leaves no restart timer pending, since a pending
\* timer is one more restart attempt.
RestartsAsErrorsAllow ==
    webSpeechSTT'.lastError = webSpeechSTT.lastError =>
        /\ webSpeechSTT.lastError \in FatalErrors => ~RecognitionStarted
        /\ (webSpeechSTT.lastError = "network" /\ RecognitionStarted) =>
               webSpeechSTT'.restartTimers + webSpeechSTT'.startTimers = 0

\* C20: in WebSpeechSTT a network error while active causes exactly one
\* restart attempt, and a not-allowed or audio-capture error causes
\* recognition never to be started again without a new start() call, the
\* error handler and the onend auto-restart taken together.
C20_RestartsAsErrorsAllow == [][RestartsAsErrorsAllow]_vars

\* The provider sessions of the DeepgramSTT instance that are open.
OpenSessions ==
    (IF sttService.connection = "open" THEN 1 ELSE 0)
    + Cardinality({i \in 1..Len(sttService.abandoned) :
                      sttService.abandoned[i] = "open"})

\* C21: whatever the sequence of start() and stop() calls and of provider
\* events on one Transcript Source instance, at most one provider recognition
\* session is open at any time, also when start() is called twice before the
\* first session has reported open.
C21_OneSession == OpenSessions <= 1

\* A step that starts a source while the source of the chunk before is still
\* tracked and unfinished starts it exactly at that source's end.
StartsAtPreviousEnd ==
    Len(playLog') = Len(playLog) + 1 =>
        \A src \in liveSession.sources :
            (src.id = playLog[Len(playLog)].id /\ src.end > now)
                => playLog'[Len(playLog')].start = src.end

\* No two sources of the play log sound at the same time.
NoOverlap(log) ==
    \A i, j \in 1..Len(log) :
        i < j => ~\E t \in {log[i].start, log[j].start} :
                     /\ log[i].start <= t /\ t < SoundEnd(log[i])
                     /\ log[j].start <= t /\ t < SoundEnd(log[j])

LiveStepIsGapless ==
    svc = "LS" => StartsAtPreviousEnd /\ NoOverlap(playLog')

\* C22: the intervals in which the sources of a LiveSession sound never
\* overlap, and a chunk scheduled before the previous one has finished starts
\* exactly where the previous one ends.
C22_GaplessSchedule == [][LiveStepIsGapless]_vars

C22_Witness ==
    /\ svc = "LS"
    /\ \E i \in 2..Len(playLog) :
          /\ playLog[i].at < SoundEnd(playLog[i - 1])
          /\ playLog[i].start = playLog[i - 1].end
          /\ SoundEnd(playLog[i]) > playLog[i].start
\* A step that takes an interruption while sources are tracked stops every
\* one of them, forgets them and moves nextStartTime to the current time.
InterruptResets ==
    (liveSession'.interrupted /\ (~liveSession.interrupted \/ nextItem' # nextItem))
        => /\ liveSession'.sources = {}
           /\ liveSession'.nextStartTime = now
           /\ \A i \in 1..Len(playLog') :
                 playLog'[i].end > now => playLog'[i].cut # NoTime

\* The first chunk to arrive after an interruption starts when it arrives.
FreshStartsOnArrival(log) ==
    \A i \in 1..Len(log) : log[i].fresh => log[i].start = log[i].at

InterruptStep ==
    svc = "LS" => InterruptResets /\ FreshStartsOnArrival(playLog')

\* C23: an interruption received while chunks are scheduled stops every
\* unfinished source, empties the set of tracked sources and sets
\* nextStartTime to the current time, and the next chunk to arrive starts at
\* its arrival time.
C23_InterruptRestartsSchedule == [][InterruptStep]_vars
\* A step that changes the gain changes nothing else.
VolumeStep ==
    (svc = "LS" /\ liveSession'.gain # liveSession.gain)
        => /\ liveSession' = [liveSession EXCEPT !.gain = liveSession'.gain]
           /\ UNCHANGED <<now, aqVars>>

\* C30: setVolume changes only the gain: nextStartTime, the tracked sources,
\* the suspended queueAudio calls, the session and what has been scheduled
\* stay as they are, whatever the volume.
C30_VolumeOnlySetsGain == [][VolumeStep]_vars

C30_Witness ==
    /\ svc = "LS"
    /\ liveSession.gain = 1
    /\ \E i \in 1..Len(playLog) : playLog[i].cut = NoTime /\ playLog[i].end > now
    /\ liveSession.sources # {}
    /\ liveSession.nextStartTime > now
\* The text starts with the configured speaker label and ": ".
HasLabel(text) == \E transcript \in Texts : text = speakerId \o ": " \o transcript

\* C24: with a speaker label configured, the text the Deepgram pipeline hands
\* to the translator never carries the "<label>: " prefix.
C24_TranslatorSeesNoLabel ==
    svc = "DG" => \A t \in tasks : t.pc = "translateText" => ~HasLabel(t.text)
\* The last start() of the Deepgram pipeline has returned without a transcript
\* source: the API key was missing or getUserMedia failed, and stop() has not
\* been called since.
StartFailed ==
    /\ svc = "DG"
    /\ stopped = "no"
    /\ starts = 0
    /\ sttService.connection = "none"

\* C25: a pipeline whose start() found the credentials missing, or whose
\* transcript source failed to start, is inactive: processSegment would
\* handle no segment and a later start() is not rejected as already active.
C25_FailedStartLeavesInactive == StartFailed => ~isActive
\* A step in which saveSegment or saveTranslation settles takes the segment
\* on to its translation, or on to synthesis, without an error report; the
\* one exception is a cached translation without text, a failure of the
\* translation itself.  saveTranslation is only ever awaited with an id.
PersistenceStep ==
    svc = "TP" =>
        /\ \A t \in tasks : (t.pc = "saveSegment" /\ t \notin tasks') =>
              \/ /\ \E u \in tasks' :
                        /\ u.seq = t.seq
                        /\ u.pc \in {"translateText", "saveTranslation",
                                     "generateSpeech"}
                 /\ pipelineState' = pipelineState
              \/ /\ CacheHit(translationCache, t.text)
                 /\ MapGet(translationCache, cacheKey(t.text)).translatedText = ""
        /\ \A t \in tasks : (t.pc = "saveTranslation" /\ t \notin tasks') =>
              /\ \E u \in tasks' : u.seq = t.seq /\ u.pc = "generateSpeech"
              /\ pipelineState' = pipelineState
        /\ \A u \in tasks' : u.pc = "saveTranslation" => u.dbSegmentId

\* C26: a failure of saveSegment or saveTranslation never keeps a final
\* segment from its translation, its onTranslation callback or its synthesis
\* and is not reported through onError; saveTranslation is attempted only
\* when saveSegment returned an id.
C26_PersistenceNeverBlocks == [][PersistenceStep]_vars

C26_Witness ==
    /\ svc = "TP"
    /\ \E t \in tasks : t.isFinal /\ t.pc = "translateText" /\ ~t.dbSegmentId
\* The handler invocation of tasks with the same place in the order of calls
\* as u, at position pc.
Before(u, pc) == \E t \in tasks : t.seq = u.seq /\ t.pc = pc

\* Every step of a segment's handler follows the cycle: the engine is asked
\* only when the segment arrives, with 'translating' reported; its answer
\* brings 'speaking'; audio from the synthesizer is decoded and its playback
\* started without a report; and the handler returns, reporting 'listening',
\* only when the playback has ended, or when there was nothing to play.
SegmentCycleStep ==
    svc = "RTS" =>
        /\ \A u \in tasks' \ tasks :
              \/ /\ u.pc = "translateText"
                 /\ ~\E t \in tasks : t.seq = u.seq
                 /\ status' = "translating"
              \/ /\ u.pc = "generateSpeech"
                 /\ Before(u, "translateText")
                    \/ (u.cached # "none" /\ ~\E t \in tasks : t.seq = u.seq)
                 /\ status' = "speaking"
              \/ /\ u.pc = "decodeAudioData"
                 /\ Before(u, "generateSpeech")
                 /\ synth' = "audio"
                 /\ status' = status
              \/ /\ u.pc = "playing"
                 /\ Before(u, "decodeAudioData")
                 /\ status' = status
        /\ \A t \in tasks \ tasks' :
              (~\E u \in tasks' : u.seq = t.seq) =>
                  /\ status' = "listening"
                  /\ \/ t.pc = "playing"
                     \/ t.pc = "generateSpeech" /\ (synth' = "null" \/ ctxState = "none")
                     \/ t.pc = "decodeAudioData" /\ onErrorCalls' = 1

C28_ReturnsToListening ==
    (svc = "TP" /\ tasks = {}) => pipelineState = "Listening"
\* C29: a failure while playing one AudioQueue item does not stall the
\* queue: as long as items are waiting, a processQueue() invocation is
\* under way that will go on to the next of them.
C29_FailureDoesNotStall ==
    (svc = "AQ" /\ queue # << >>) => drains # {}

\* The first item enqueued has failed and the second has been started.
C29_Witness ==
    /\ svc = "AQ"
    /\ \E i \in 1..Len(playLog) : playLog[i].id = 2
    /\ \A i \in 1..Len(playLog) : playLog[i].id # 1
    /\ \A d \in drains : d.item.id # 1
\* A step in which a start() goes on to ask for the microphone was taken on
\* an inactive service, activates it and reports 'listening'; on an active
\* service no step asks for the microphone, and none reports 'listening'
\* unless a segment's handler returns.
StartStep ==
    svc = "RTS" =>
        /\ starts' > starts =>
              /\ ~isActive /\ isActive'
              /\ starts' = starts + 1
              /\ status' = "listening"
        /\ (isActive /\ tasks' = tasks) => status' # "listening" \/ status = "listening"

\* C31: start() on an inactive RealtimeTranslationService reports 'listening'
\* and goes on to activate the transcript source; start() on an active
\* service, also one still waiting for the microphone, reports no status
\* and asks for no second media stream.
C31_StartOnlyWhenInactive == [][StartStep]_vars

C31_Witness ==
    /\ svc = "RTS"
    /\ isActive /\ starts = 1 /\ status = "listening" /\ ~mediaStream
\* C32: clear() discards every item waiting in the AudioQueue: none of them
\* is in the queue afterwards, is taken up by processQueue() or is started,
\* so none of its callbacks is invoked.
C32_ClearDiscardsPending ==
    svc = "AQ" =>
        \A id \in cleared.items :
            /\ \A i \in 1..Len(queue) : queue[i].id # id
            /\ \A d \in drains : d.item.id # id
            /\ \A i \in 1..Len(playLog) : playLog[i].id # id

C32_Witness ==
    /\ svc = "AQ"
    /\ 2 \in cleared.items
    /\ \E i \in 1..Len(playLog) : playLog[i].id = 3 /\ playLog[i].end # NoTime
\* C33: within one TranslationPipeline a final segment with a given
\* segmentId is processed at most once: no two processSegment invocations
\* are saving a segment with the same id.
C33_SegmentProcessedOnce ==
    svc = "DG" =>
        \A t, u \in tasks :
            (t.pc = "saveSegment" /\ u.pc = "saveSegment"
                /\ t.segmentId = u.segmentId) => t = u
\* C34: when clear() is never called, the AudioQueue starts items in the
\* order they were enqueued, each once, and an item's onEnd has been invoked
\* (its source has ended) before the next item's onStart.
C34_InOrderOneAtATime ==
    (svc = "AQ" /\ ~cleared.called) =>
        \A i \in 1..(Len(playLog) - 1) :
            /\ playLog[i].id < playLog[i + 1].id
            /\ playLog[i].end # NoTime
            /\ playLog[i].end <= playLog[i + 1].start

C34_Witness ==
    /\ svc = "AQ"
    /\ ~cleared.called
    /\ Len(playLog) = MaxItems
    /\ playLog[MaxItems].end # NoTime
\* A step in which the transcript source of an active Deepgram pipeline emits
\* a final segment with text starts a processSegment invocation for it.
FinalIsProcessed ==
    (/\ svc = "DG"
     /\ isActive
     /\ sttService.onTranscriptCallback
     /\ sttService'.segmentCounter = sttService.segmentCounter + 1)
        => delivered' = delivered + 1

\* C35: after stop() and start() on one Deepgram pipeline, every final
\* segment with text that the new transcript source delivers is processed:
\* processedSegments suppresses no segment that was not delivered before.
C35_NewSourceIsHeard == [][FinalIsProcessed]_vars
\* A step in which the engine call of invocation t ends in failure stores
\* nothing in the translation cache.
FailedAttemptNotCached ==
    \A t \in tasks :
        (/\ t.pc = "translateText"
         /\ \E u \in tasks' : u.seq = t.seq /\ u.pc # "translateText" /\ u.engine = "failed")
            => translationCache' = translationCache

\* C36: a translation attempt that failed in the external engine is never
\* stored in the translation cache, so the next call for the same triple
\* calls the engine again instead of hitting the fallback text.
C36_FailureIsNotCached == [][FailedAttemptNotCached]_vars
\* C37: the cache key is injective: two different (sourceLang, text,
\* targetLang) triples, with languages of the Language enumeration and any
\* text, a separator included, never get the same key, in either cache.
C37_CacheKeyInjective ==
    (svc = "KEY" /\ keys.a # keys.b) =>
        /\ keys.pipeline # <<>> => keys.pipeline[1] # keys.pipeline[2]
        /\ keys.service # <<>> => keys.service[1] # keys.service[2]

\* C37 (witness): both keys of two requests were computed whose languages
\* differ by a region suffix and whose texts hold a separator and a
\* language name.
C37_Witness ==
    /\ svc = "KEY"
    /\ keys.a = [sourceLang |-> "Italian", text |-> "hola_Lao", targetLang |-> "Lao"]
    /\ keys.b = [sourceLang |-> "Italian (Switzerland)", text |-> "hola",
                 targetLang |-> "Lao"]
    /\ keys.pipeline # <<>> /\ keys.service # <<>>
\* The ids a transcript source has given its segments so far are such that
\* no final segment shares its id with another segment.
FinalIdsUnique(stt) ==
    /\ \A i, j \in 1..Len(stt.finals) : stt.finals[i] = stt.finals[j] => i = j
    /\ \A i \in 1..Len(stt.finals) : stt.finals[i] \notin stt.interims

\* C38: within one transcript source instance (WebSpeechSTT or DeepgramSTT),
\* the id of every final segment differs from the id of every other final
\* segment and of every interim segment.
C38_FinalIdsUnique ==
    svc \in SourceScenarios => FinalIdsUnique(webSpeechSTT) /\ FinalIdsUnique(sttService)

\* C38 (witness): the WebSpeechSTT has emitted two final segments, and an
\* interim segment before each of them.
C38_Witness ==
    /\ svc = "WS"
    /\ Len(webSpeechSTT.finals) = 2
    /\ {"seg-0-partial", "seg-1-partial"} \subseteq webSpeechSTT.interims
\* C39: once an 'interrupted' signal has been handled, no audio chunk
\* received before the signal or in the same server message is playing or
\* scheduled, also when its queueAudio was still waiting for resume().
C39_InterruptedAudioIsSilent ==
    svc = "LS" =>
        \A src \in liveSession.sources :
            src.id <= liveSession.discarded => src.end <= now
====
